---------------------------- MODULE Spec2Model ----------------------------
(***************************************************************************)
(* Tabu search over 2-opt moves for the travelling salesman problem.       *)
(* The module models src/algorithms/tabu_search.py: the tour utilities,    *)
(* the 2-opt move generator, the TabuList deque and the search loop of     *)
(* tabu_search_optimization, together with the progress callback of        *)
(* src/utils/performance_manager.py and the PerformanceTracker it feeds.   *)
(*                                                                         *)
(* Tours are functions over the positions 0..n-1, as Python lists are.     *)
(* A distance matrix is a function of two city indices.  Distances and     *)
(* lengths are floats: binary floating-point numbers with a significand of *)
(* MantissaBits bits, whose sum is rounded to nearest, ties to even.       *)
(*                                                                         *)
(* Spec is the search loop run on valid tours, FairSpec the same with      *)
(* fairness, InvalidSpec the loop run on lists that are no tours, and      *)
(* AnyListSpec the loop run on both.                                       *)
(* MoveSpec calls the tour utilities on every permutation of a few cities, *)
(* and TenureSpec calls process_tabu_tenure on its own.                    *)
(***************************************************************************)
EXTENDS Integers, Sequences, FiniteSets, TLC

VARIABLES
    \* arguments of tabu_search_optimization
    tour, distance_matrix, tabu_tenure, max_iterations, time_limit,
    aspiration_enabled, max_no_improvement_arg, intensification_threshold,
    diversification_threshold, dynamic_tabu, progress_callback,
    \* locals of tabu_search_optimization
    tabu_tenure_value, max_no_improvement,
    current_tour, current_length, best_tour, best_length,
    iteration, best_move_types, no_improvement_count, best_move_info,
    \* the TabuList object
    tenure, tabu_list,
    \* the wall clock read by the loop test, in ticks since start_time
    elapsed,
    \* control position: "loop" (at the while test) or "done" (returned)
    pc,
    \* the PerformanceTracker fed by the progress callback, and the calls made
    tracker, notifications,
    \* observation of the last executed iteration body: the neighbours it
    \* evaluated, and every add_move call made so far
    scan, added

vars == <<tour, distance_matrix, tabu_tenure, max_iterations, time_limit,
          aspiration_enabled, max_no_improvement_arg, intensification_threshold,
          diversification_threshold, dynamic_tabu, progress_callback,
          tabu_tenure_value, max_no_improvement,
          current_tour, current_length, best_tour, best_length,
          iteration, best_move_types, no_improvement_count, best_move_info,
          tenure, tabu_list, elapsed, pc, tracker, notifications, scan, added>>

params == <<tour, distance_matrix, tabu_tenure, max_iterations, time_limit,
            aspiration_enabled, max_no_improvement_arg, intensification_threshold,
            diversification_threshold, dynamic_tabu, progress_callback,
            tabu_tenure_value, max_no_improvement>>

---------------------------------------------------------------------------
(* Bounds of the model *)

\* largest max_iterations tried
MaxIter == 5

\* largest time_limit tried, and the last tick of the clock
MaxTime == 1

\* largest number of cities of the tours the utilities are called on
MaxCities == 5

\* number of distance matrices tried per number of cities
MaxSeed == 2

\* largest number of cities process_tabu_tenure is called with, besides the
\* inputs of TenureCities
MaxTenureCities == 10

\* bits of the significand of a float (53 in the code's float64)
MantissaBits == 6

\* largest exponent of a float: the floats are spaced 2^e apart, e in
\* 0..MaxExponent, and end at 2^(MantissaBits + MaxExponent)
MaxExponent == 3

---------------------------------------------------------------------------
(* Python values *)

\* Python's None (best_neighbor, best_move_info, max_no_improvement)
None == <<>>

\* a Python list given by its elements, positions 0..n-1
List(s) == [k \in 0..(Len(s) - 1) |-> s[k + 1]]

len(t) == Cardinality(DOMAIN t)

\* a dense matrix given by its rows
Matrix(rows) == [a \in 0..(Len(rows) - 1) |->
                    [b \in 0..(Len(rows) - 1) |-> rows[a + 1][b + 1]]]

\* float('inf') for a run: above the length of every tour of the instance
Infinity(t, D) ==
    LET n == len(t)
        Largest == CHOOSE x \in {D[a][b] : a \in 0..(n - 1), b \in 0..(n - 1)} :
                      \A a \in 0..(n - 1), b \in 0..(n - 1) : D[a][b] <= x
    IN  n * Largest + 1

---------------------------------------------------------------------------
(* calculate_tour_length *)

\* the spacing of the floats around x: the least power of two q with
\* x < q * 2^MantissaBits
Ulp(x) ==
    CHOOSE q \in {2 ^ e : e \in 0..MaxExponent} :
        /\ x < q * (2 ^ MantissaBits)
        /\ \A e \in 0..MaxExponent :
              x < (2 ^ e) * (2 ^ MantissaBits) => q <= 2 ^ e

\* the float nearest to each number up to the largest float: x rounded to a
\* multiple of the spacing, a tie to the even multiple
fl == [x \in 0..(2 ^ (MantissaBits + MaxExponent) - 1) |->
          LET q == Ulp(x)
              below == x - (x % q)
          IN  IF 2 * (x - below) < q THEN below
              ELSE IF 2 * (x - below) > q THEN below + q
              ELSE IF (below \div q) % 2 = 0 THEN below ELSE below + q]

\* a + b on floats
fl_add(a, b) == fl[a + b]

\* tour_length after m passes of the for loop
RECURSIVE SumConsecutive(_, _, _)
SumConsecutive(t, D, m) ==
    IF m <= 0 THEN 0
    ELSE fl_add(SumConsecutive(t, D, m - 1), D[t[m - 1]][t[m]])

\* the sum without the edge back to the start
calculate_tour_length_open(t, D) == SumConsecutive(t, D, len(t) - 1)

calculate_tour_length(t, D) ==
    fl_add(SumConsecutive(t, D, len(t) - 1), D[t[len(t) - 1]][t[0]])

---------------------------------------------------------------------------
(* apply_2opt_move: new_tour[i+1:j+1] = reversed(tour[i+1:j+1]) *)

\* the reversal taking position i with it
apply_2opt_move_from_i(t, i, j) ==
    [k \in DOMAIN t |-> IF i <= k /\ k <= j THEN t[i + j - k] ELSE t[k]]

\* the reversal with its source index off by one
apply_2opt_move_shifted(t, i, j) ==
    [k \in DOMAIN t |-> IF i + 1 <= k /\ k <= j THEN t[i + j - k] ELSE t[k]]

apply_2opt_move(t, i, j) ==
    [k \in DOMAIN t |-> IF i + 1 <= k /\ k <= j THEN t[i + 1 + j - k] ELSE t[k]]

---------------------------------------------------------------------------
(* generate_2opt_neighbors: the list of (neighbor, move) pairs *)

\* the inner loop running j up to the last position
RECURSIVE InnerLoopToEnd(_, _, _)
InnerLoopToEnd(t, i, j) ==
    IF j >= len(t) THEN <<>>
    ELSE <<[neighbor |-> apply_2opt_move(t, i, j), move_info |-> <<"2opt", i, j>>]>>
         \o InnerLoopToEnd(t, i, j + 1)

RECURSIVE InnerLoop(_, _, _)
InnerLoop(t, i, j) ==
    IF j >= len(t) - 1 THEN <<>>
    ELSE <<[neighbor |-> apply_2opt_move(t, i, j), move_info |-> <<"2opt", i, j>>]>>
         \o InnerLoop(t, i, j + 1)

RECURSIVE GeneralLoop(_, _)
GeneralLoop(t, i) ==
    IF i >= len(t) - 2 THEN <<>>
    ELSE InnerLoop(t, i, i + 2) \o GeneralLoop(t, i + 1)

\* the wrap-around loop starting at position 1
RECURSIVE WrapLoopFromOne(_, _)
WrapLoopFromOne(t, i) ==
    IF i = 0 THEN WrapLoopFromOne(t, 1)
    ELSE IF i >= len(t) - 2 THEN <<>>
    ELSE <<[neighbor |-> apply_2opt_move(t, i, len(t) - 1),
            move_info |-> <<"2opt", i, len(t) - 1>>]>>
         \o WrapLoopFromOne(t, i + 1)

\* the wrap-around loop stopping one position early
RECURSIVE WrapLoopShort(_, _)
WrapLoopShort(t, i) ==
    IF i >= len(t) - 3 THEN <<>>
    ELSE <<[neighbor |-> apply_2opt_move(t, i, len(t) - 1),
            move_info |-> <<"2opt", i, len(t) - 1>>]>>
         \o WrapLoopShort(t, i + 1)

RECURSIVE WrapLoop(_, _)
WrapLoop(t, i) ==
    IF i >= len(t) - 2 THEN <<>>
    ELSE <<[neighbor |-> apply_2opt_move(t, i, len(t) - 1),
            move_info |-> <<"2opt", i, len(t) - 1>>]>>
         \o WrapLoop(t, i + 1)

generate_2opt_neighbors(t) == GeneralLoop(t, 0) \o WrapLoop(t, 0)

---------------------------------------------------------------------------
(* What the two functions leave in the list they were handed *)

\* new_tour = tour, without the copy: line 52 writes into the argument
input_after_apply_in_place(t, i, j) == apply_2opt_move(t, i, j)

\* new_tour is a copy (line 48), so the slice assignment of line 52 leaves
\* the elements of the argument as they were
input_after_apply(t, i, j) == t

\* the argument after the apply_2opt_move calls for the moves from the k-th on
RECURSIVE input_after_moves(_, _, _)
input_after_moves(t, moves, k) ==
    IF k > Len(moves) THEN t
    ELSE input_after_moves(input_after_apply(t, moves[k].move_info[2],
                                             moves[k].move_info[3]),
                           moves, k + 1)

\* the argument after generate_2opt_neighbors returns
input_after_generate(t) == input_after_moves(t, generate_2opt_neighbors(t), 1)

---------------------------------------------------------------------------
(* TabuList: a deque of (move, expiration) pairs and a tenure *)

\* the expiration computed from the tenure the list was built with
add_move_initial_tenure(tl, ten, move, current_iteration) ==
    Append(tl, <<move, current_iteration + tabu_tenure_value>>)

\* the expiration one iteration early
add_move_early(tl, ten, move, current_iteration) ==
    Append(tl, <<move, current_iteration + ten - 1>>)

add_move(tl, ten, move, current_iteration) ==
    Append(tl, <<move, current_iteration + ten>>)

\* _moves_match comparing the indices one way only
moves_match_ordered(move1, move2) ==
    move1[2] = move2[2] /\ move1[3] = move2[3]

moves_match(move1, move2) ==
    \/ (move1[2] = move2[2] /\ move1[3] = move2[3])
    \/ (move1[2] = move2[3] /\ move1[3] = move2[2])

\* _clean_expired with < for <=
RECURSIVE clean_expired_strict(_, _)
clean_expired_strict(tl, current_iteration) ==
    IF tl /= <<>> /\ tl[1][2] < current_iteration
    THEN clean_expired_strict(Tail(tl), current_iteration)
    ELSE tl

RECURSIVE clean_expired(_, _)
clean_expired(tl, current_iteration) ==
    IF tl /= <<>> /\ tl[1][2] <= current_iteration
    THEN clean_expired(Tail(tl), current_iteration)
    ELSE tl

\* is_tabu returns a boolean and leaves the deque pruned
is_tabu(tl, move, current_iteration) ==
    LET cleaned == clean_expired(tl, current_iteration)
    IN  [result |-> \E k \in 1..Len(cleaned) : moves_match(move, cleaned[k][1]),
         tabu_list |-> cleaned]


---------------------------------------------------------------------------
(* process_tabu_tenure.  The argument is a tagged Python value:            *)
(* [type |-> "str", value |-> s], [type |-> "int", value |-> k], or        *)
(* [type |-> "other"] for a value int() cannot convert.                    *)

\* int(round(math.sqrt(n))): the integer r with r - 1/2 < sqrt(n) < r + 1/2
RoundSqrt(n) ==
    CHOOSE r \in 0..(n + 1) :
        /\ 4 * n < (2 * r + 1) * (2 * r + 1)
        /\ (r = 0 \/ (2 * r - 1) * (2 * r - 1) < 4 * n)

\* int(round(math.log(n) * 3)) for 1 <= n <= 125: n lies between
\* exp((2r-1)/6) and exp((2r+1)/6), i.e. 1.18, 1.65, 2.30, 3.21, 4.48,
\* 6.25, 8.73, 12.18, 17.002, 23.7, 33.1, 46.2, 64.5, 90.02, 125.6
RoundLog3(n) ==
    CASE n = 1 -> 0
      [] n = 2 -> 2
      [] n = 3 -> 3
      [] n = 4 -> 4
      [] n \in 5..6 -> 5
      [] n \in 7..8 -> 6
      [] n \in 9..12 -> 7
      [] n \in 13..17 -> 8
      [] n \in 18..23 -> 9
      [] n \in 24..33 -> 10
      [] n \in 34..46 -> 11
      [] n \in 47..64 -> 12
      [] n \in 65..90 -> 13
      [] n \in 91..125 -> 14

DefaultTenure == 10

\* max(1, tenure) left out
ClampTenureMissing(ten) == ten

ClampTenure(ten) == IF ten >= 1 THEN ten ELSE 1

\* str.lower() on the strings tried
lower(str) ==
    CASE str = "SQRT" -> "sqrt"
      [] str = "Sqrt" -> "sqrt"
      [] str = "LOG" -> "log"
      [] OTHER -> str

process_tabu_tenure(tabu_tenure_input, num_cities) ==
    LET ten == IF tabu_tenure_input.type = "str"
               THEN IF lower(tabu_tenure_input.value) = "sqrt"
                    THEN RoundSqrt(num_cities)
                    ELSE IF lower(tabu_tenure_input.value) = "log"
                    THEN RoundLog3(num_cities)
                    ELSE DefaultTenure
               ELSE IF tabu_tenure_input.type = "int" THEN tabu_tenure_input.value
               ELSE DefaultTenure
    IN  ClampTenure(ten)

---------------------------------------------------------------------------
(* PerformanceTracker and the progress callback that feeds it *)

NewTracker ==
    [iterations |-> <<>>, tour_lengths |-> <<>>, best_tour_lengths |-> <<>>,
     move_types |-> <<>>, move_counts |-> [k \in {"2opt"} |-> 0]]

track_iteration(tr, it, cur_len, bst_len, move_type) ==
    [iterations |-> Append(tr.iterations, it),
     tour_lengths |-> Append(tr.tour_lengths, cur_len),
     best_tour_lengths |-> Append(tr.best_tour_lengths, bst_len),
     move_types |-> Append(tr.move_types, move_type),
     move_counts |-> IF move_type /= None
                     THEN [tr.move_counts EXCEPT ![move_type[1]] = @ + 1]
                     ELSE tr.move_counts]

\* track_progress: move_type = move_info[0] if move_info else None
\* (a move type is held as <<name>>, so that it compares with None)
track_progress(tr, it, cur_len, bst_len, move_info) ==
    track_iteration(tr, it, cur_len, bst_len,
                    IF move_info /= None THEN <<move_info[1]>> ELSE None)

---------------------------------------------------------------------------
(* The inputs tried *)

Some(v) == <<v>>

D3 == Matrix(<< <<0, 1, 2>>,
                <<1, 0, 3>>,
                <<2, 3, 0>> >>)

D4 == Matrix(<< <<0, 1, 4, 2>>,
                <<1, 0, 2, 5>>,
                <<4, 2, 0, 1>>,
                <<2, 5, 1, 0>> >>)

U4 == Matrix(<< <<0, 1, 1, 1>>,
                <<1, 0, 1, 1>>,
                <<1, 1, 0, 1>>,
                <<1, 1, 1, 0>> >>)

D5a == Matrix(<< <<0, 4, 1, 1, 3>>,
                 <<4, 0, 2, 3, 1>>,
                 <<1, 2, 0, 2, 2>>,
                 <<1, 3, 2, 0, 4>>,
                 <<3, 1, 2, 4, 0>> >>)

D5b == Matrix(<< <<0, 4, 1, 2, 2>>,
                 <<4, 0, 2, 1, 1>>,
                 <<1, 2, 0, 3, 1>>,
                 <<2, 1, 3, 0, 1>>,
                 <<2, 1, 1, 1, 0>> >>)

\* three cities so far apart that the sums of their distances are rounded
F3 == Matrix(<< <<0, 40, 50>>,
                <<40, 0, 41>>,
                <<50, 41, 0>> >>)

Instances ==
    { [tour |-> List(<<0, 1, 2>>), distance_matrix |-> D3],
      [tour |-> List(<<0, 1, 2>>), distance_matrix |-> F3],
      [tour |-> List(<<2, 0, 1>>), distance_matrix |-> D3],
      [tour |-> List(<<0, 2, 1, 3>>), distance_matrix |-> D4],
      [tour |-> List(<<0, 1, 2, 3>>), distance_matrix |-> D4],
      [tour |-> List(<<2, 0, 3, 1>>), distance_matrix |-> U4],
      [tour |-> List(<<0, 1, 2, 3, 4>>), distance_matrix |-> D5a],
      [tour |-> List(<<3, 0, 4, 1, 2>>), distance_matrix |-> D5a],
      [tour |-> List(<<0, 1, 2, 3, 4>>), distance_matrix |-> D5b] }

\* calls that hand over a list that is no tour: fewer than three cities, or
\* a city visited twice and another never
InvalidInstances ==
    { [tour |-> List(<<0>>), distance_matrix |-> Matrix(<< <<0>> >>)],
      [tour |-> List(<<0, 1>>), distance_matrix |-> Matrix(<< <<0, 1>>, <<1, 0>> >>)],
      [tour |-> List(<<0, 0, 1>>), distance_matrix |-> D3],
      [tour |-> List(<<1, 3, 1, 0>>), distance_matrix |-> D4] }

TenureInputs ==
    { [type |-> "int", value |-> 0], [type |-> "int", value |-> 2],
      [type |-> "int", value |-> 6], [type |-> "str", value |-> "sqrt"] }

MaxNoImprovementArgs == {None, Some(0), Some(2)}

\* (intensification_threshold, diversification_threshold): the defaults of
\* the signature, and two low settings that the bounded runs can reach
Thresholds == {<<20, 50>>, <<1, 2>>, <<1, 50>>}

\* no callback, the callback of main.py that feeds the tracker, and a
\* callback that returns True
Callbacks == {None, <<"track_progress">>, <<"returns_true">>}

---------------------------------------------------------------------------
(* tabu_search_optimization *)

\* the while test without the iteration cap
LoopConditionNoCap == elapsed < time_limit

\* the while test off by one
LoopConditionInclusive == iteration <= max_iterations /\ elapsed < time_limit

\* the while test (line 279)
LoopCondition == iteration < max_iterations /\ elapsed < time_limit

\* line 295 without the aspiration override
IsAdmissibleNoAspiration(tabu, neighbor_length) == ~tabu

\* line 295
IsAdmissible(tabu, neighbor_length) ==
    ~tabu \/ (aspiration_enabled /\ neighbor_length < best_length)

\* line 296 with <= : the last of several equal neighbours wins
IsBetterNeighborOrEqual(neighbor_length, best_neighbor_length) ==
    neighbor_length <= best_neighbor_length

\* line 296
IsBetterNeighbor(neighbor_length, best_neighbor_length) ==
    neighbor_length < best_neighbor_length

\* line 310 with the comparison reversed
IsImprovementReversed(cur_len, bst_len) == cur_len > bst_len

\* line 310 with the comparison missing
IsImprovementAlways(cur_len, bst_len) == TRUE

\* line 310
IsImprovement(cur_len, bst_len) == cur_len < bst_len

\* line 338 with > for >=
ShouldBreakLate(nic) == max_no_improvement /= None /\ nic > max_no_improvement[1]

\* line 338
ShouldBreak(nic) == max_no_improvement /= None /\ nic >= max_no_improvement[1]

\* lines 343-351 with > for >=
AdaptTenureStrict(nic) ==
    IF nic > diversification_threshold
    THEN IF tabu_tenure_value * 2 <= tabu_tenure_value + 10
         THEN tabu_tenure_value * 2 ELSE tabu_tenure_value + 10
    ELSE IF nic > intensification_threshold
    THEN IF tabu_tenure_value \div 2 >= 3 THEN tabu_tenure_value \div 2 ELSE 3
    ELSE tabu_tenure_value

\* lines 343-351
AdaptTenure(nic) ==
    IF nic >= diversification_threshold
    THEN IF tabu_tenure_value * 2 <= tabu_tenure_value + 10
         THEN tabu_tenure_value * 2 ELSE tabu_tenure_value + 10
    ELSE IF nic >= intensification_threshold
    THEN IF tabu_tenure_value \div 2 >= 3 THEN tabu_tenure_value \div 2 ELSE 3
    ELSE tabu_tenure_value

\* the for loop of lines 288-299 from its k-th element on; acc holds the
\* loop's locals and the deque as is_tabu leaves it
RECURSIVE EvaluateNeighbors(_, _, _, _)
EvaluateNeighbors(nbrs, k, it, acc) ==
    IF k > Len(nbrs) THEN acc
    ELSE LET neighbor == nbrs[k].neighbor
             move_info == nbrs[k].move_info
             neighbor_length == calculate_tour_length(neighbor, distance_matrix)
             t == is_tabu(acc.tabu_list, move_info, it)
             admissible == IsAdmissible(t.result, neighbor_length)
             better == admissible
                       /\ IsBetterNeighbor(neighbor_length, acc.best_neighbor_length)
         IN  EvaluateNeighbors(nbrs, k + 1, it,
                [best_neighbor |-> IF better THEN neighbor ELSE acc.best_neighbor,
                 best_neighbor_length |-> IF better THEN neighbor_length
                                          ELSE acc.best_neighbor_length,
                 best_move_info |-> IF better THEN move_info ELSE acc.best_move_info,
                 tabu_list |-> t.tabu_list,
                 scan |-> Append(acc.scan,
                                 [neighbor |-> neighbor, move_info |-> move_info,
                                  neighbor_length |-> neighbor_length,
                                  is_tabu |-> t.result,
                                  admissible |-> admissible])])

\* the state at the while test after lines 249-274, for a call on one of the
\* instances insts
InitFrom(insts) ==
    /\ \E inst \in insts :
          /\ tour = inst.tour
          /\ distance_matrix = inst.distance_matrix
    /\ max_iterations \in 0..MaxIter
    /\ time_limit \in 0..MaxTime
    /\ aspiration_enabled \in BOOLEAN
    /\ max_no_improvement_arg \in MaxNoImprovementArgs
    /\ dynamic_tabu \in BOOLEAN
    /\ \E th \in Thresholds :
          /\ (~dynamic_tabu => th = <<20, 50>>)
          /\ intensification_threshold = th[1]
          /\ diversification_threshold = th[2]
    /\ progress_callback \in Callbacks
    /\ tabu_tenure \in TenureInputs
    /\ tabu_tenure_value = process_tabu_tenure(tabu_tenure, len(tour))
    /\ tenure = tabu_tenure_value
    /\ tabu_list = <<>>
    /\ max_no_improvement = IF max_no_improvement_arg = None
                            THEN Some(tabu_tenure_value * 2)
                            ELSE max_no_improvement_arg
    /\ current_tour = tour
    /\ current_length = calculate_tour_length(tour, distance_matrix)
    /\ best_tour = tour
    /\ best_length = calculate_tour_length(tour, distance_matrix)
    /\ iteration = 0
    /\ best_move_types = [k \in {"2opt"} |-> 0]
    /\ no_improvement_count = 0
    /\ best_move_info = None
    /\ elapsed = 0
    /\ pc = "loop"
    /\ tracker = NewTracker
    /\ notifications = <<>>
    /\ scan = <<>>
    /\ added = <<>>

Init == InitFrom(Instances)

\* the count left alone when no neighbour was found
NoImprovementAfterCommitOnly(found, improved) ==
    IF improved THEN 0
    ELSE IF found THEN no_improvement_count + 1
    ELSE no_improvement_count

\* lines 314, 319 and 335: reset on a new best, incremented otherwise
NoImprovementAfter(found, improved) ==
    IF improved THEN 0 ELSE no_improvement_count + 1

\* best_length updated without best_tour
BestTourStale(improved, neighbor) == best_tour

\* line 311: best_tour = current_tour.copy() on a new best
BestTourAfter(improved, neighbor) == IF improved THEN neighbor ELSE best_tour

\* a count of every committed move
MoveTypesAfterCommit(found, improved) ==
    IF found THEN [best_move_types EXCEPT !["2opt"] = @ + 1]
    ELSE best_move_types

\* line 313: best_move_types['2opt'] += 1 on a new best
MoveTypesAfter(found, improved) ==
    IF improved THEN [best_move_types EXCEPT !["2opt"] = @ + 1]
    ELSE best_move_types

\* what a callback returns when called: track_progress has no return
\* statement, the other callback returns True
CallbackReturn(cb) == IF cb = <<"returns_true">> THEN <<TRUE>> ELSE None

\* the break test reading the value the callback returned
BreakOnCallbackValue(nic, returned) == ShouldBreak(nic) \/ returned = <<TRUE>>

\* line 325 drops the value the callback returns; the break test of line 338
\* follows
BreakAfterCallback(nic, returned) == ShouldBreak(nic)

\* the loop body, lines 280-351, run from the current state with callback cb:
\* the values it leaves in the locals and in the TabuList
LoopBody(cb) ==
    LET it == iteration + 1
        sel == EvaluateNeighbors(generate_2opt_neighbors(current_tour), 1, it,
                  [best_neighbor |-> None,
                   best_neighbor_length |-> Infinity(tour, distance_matrix),
                   best_move_info |-> None,
                   tabu_list |-> tabu_list,
                   scan |-> <<>>])
        found == sel.best_neighbor /= None
        improved == found /\ IsImprovement(sel.best_neighbor_length, best_length)
        nic == NoImprovementAfter(found, improved)
        called == found /\ cb /= None
        returned == IF called THEN CallbackReturn(cb) ELSE None
        stop == BreakAfterCallback(nic, returned)
    IN  [iteration |-> it,
         scan |-> sel.scan,
         best_move_info |-> sel.best_move_info,
         current_tour |-> IF found THEN sel.best_neighbor
                          ELSE input_after_generate(current_tour),
         current_length |-> IF found THEN sel.best_neighbor_length
                            ELSE current_length,
         tabu_list |-> IF found
                       THEN add_move(sel.tabu_list, tenure, sel.best_move_info, it)
                       ELSE sel.tabu_list,
         added |-> IF found
                   THEN Append(added, [move |-> sel.best_move_info,
                                       iteration |-> it, tenure |-> tenure])
                   ELSE added,
         best_tour |-> BestTourAfter(improved, sel.best_neighbor),
         best_length |-> IF improved THEN sel.best_neighbor_length
                         ELSE best_length,
         best_move_types |-> MoveTypesAfter(found, improved),
         no_improvement_count |-> nic,
         called |-> called,
         pc |-> IF stop THEN "done" ELSE "loop",
         tenure |-> IF ~stop /\ dynamic_tabu THEN AdaptTenure(nic) ELSE tenure]

\* one pass through the loop body, lines 280-351
Iterate ==
    /\ pc = "loop"
    /\ LoopCondition
    /\ \E body \in {LoopBody(progress_callback)} :
           /\ iteration' = body.iteration
           /\ scan' = body.scan
           /\ best_move_info' = body.best_move_info
           /\ current_tour' = body.current_tour
           /\ current_length' = body.current_length
           /\ tabu_list' = body.tabu_list
           /\ added' = body.added
           /\ best_tour' = body.best_tour
           /\ best_length' = body.best_length
           /\ best_move_types' = body.best_move_types
           /\ no_improvement_count' = body.no_improvement_count
           /\ notifications' =
                 IF body.called
                 THEN Append(notifications,
                             [iteration |-> body.iteration,
                              current_tour |-> body.current_tour,
                              current_length |-> body.current_length,
                              best_tour |-> body.best_tour,
                              best_length |-> body.best_length,
                              move |-> body.best_move_info])
                 ELSE notifications
           /\ tracker' =
                 IF body.called /\ progress_callback = <<"track_progress">>
                 THEN track_progress(tracker, body.iteration, body.current_length,
                                     body.best_length, body.best_move_info)
                 ELSE tracker
           /\ pc' = body.pc
           /\ tenure' = body.tenure
    /\ UNCHANGED <<params, elapsed>>

\* the while test fails: return (line 353)
LoopExit ==
    /\ pc = "loop"
    /\ ~LoopCondition
    /\ pc' = "done"
    /\ UNCHANGED <<params, current_tour, current_length, best_tour, best_length,
                   iteration, best_move_types, no_improvement_count,
                   best_move_info, tenure, tabu_list, elapsed, tracker,
                   notifications, scan, added>>

\* wall-clock time passes while the function runs
Tick ==
    /\ pc = "loop"
    /\ elapsed < MaxTime
    /\ elapsed' = elapsed + 1
    /\ UNCHANGED <<params, current_tour, current_length, best_tour, best_length,
                   iteration, best_move_types, no_improvement_count,
                   best_move_info, tenure, tabu_list, pc, tracker,
                   notifications, scan, added>>

Next == LoopExit \/ Tick \/ Iterate

Spec == Init /\ [][Next]_vars

\* the same function called with a list that is no tour
InvalidInit == InitFrom(InvalidInstances)

InvalidSpec == InvalidInit /\ [][Next]_vars

\* the function called with any of the lists above, tour or not
AnyListInit == InitFrom(Instances \cup InvalidInstances)

AnyListSpec == AnyListInit /\ [][Next]_vars

\* the interpreter keeps executing: a run does not halt while a step is possible
FairSpec == Spec /\ WF_vars(Next)

---------------------------------------------------------------------------
(* The tour utilities called on their own: a caller holds a tour and a     *)
(* symmetric distance matrix, measures the tour, generates its 2-opt       *)
(* neighbourhood, applies one of the moves and applies the same move again *)

\* every permutation of [0, n)
Tours(n) ==
    {t \in [0..(n - 1) -> 0..(n - 1)] : {t[k] : k \in 0..(n - 1)} = 0..(n - 1)}

\* a symmetric matrix with a zero diagonal, as compute_distance_matrix makes
SymmetricMatrix(n, s) ==
    [a \in 0..(n - 1) |->
        [b \in 0..(n - 1) |->
            IF a = b THEN 0 ELSE 1 + (((a + b) * s + a * b) % 5)]]

\* the same with distances so large that their sums are rounded
DistantMatrix(n) ==
    [a \in 0..(n - 1) |->
        [b \in 0..(n - 1) |->
            IF a = b THEN 0 ELSE 40 + ((a + b + a * b) % 11)]]

\* the defaults of the signature of tabu_search_optimization
SignatureDefaults ==
    /\ max_iterations = 1000
    /\ time_limit = 60
    /\ aspiration_enabled = TRUE
    /\ max_no_improvement_arg = None
    /\ intensification_threshold = 20
    /\ diversification_threshold = 50
    /\ dynamic_tabu = FALSE
    /\ progress_callback = None

\* no search has been started
NotStarted ==
    /\ max_no_improvement = None
    /\ best_tour = tour
    /\ best_length = 0
    /\ iteration = 0
    /\ best_move_types = [k \in {"2opt"} |-> 0]
    /\ no_improvement_count = 0
    /\ tabu_list = <<>>
    /\ elapsed = 0
    /\ tracker = NewTracker
    /\ notifications = <<>>
    /\ added = <<>>

search_state == <<max_no_improvement, best_tour, best_length, iteration,
                  best_move_types, no_improvement_count, tabu_list, elapsed,
                  tracker, notifications, added>>

arguments == <<tour, distance_matrix, tabu_tenure, max_iterations, time_limit,
               aspiration_enabled, max_no_improvement_arg,
               intensification_threshold, diversification_threshold,
               dynamic_tabu, progress_callback>>

MoveInit ==
    /\ \E n \in 3..MaxCities :
          /\ tour \in Tours(n)
          /\ distance_matrix \in {SymmetricMatrix(n, s) : s \in 1..MaxSeed}
                                     \cup {DistantMatrix(n)}
    /\ tabu_tenure = [type |-> "int", value |-> DefaultTenure]
    /\ tabu_tenure_value = DefaultTenure
    /\ tenure = DefaultTenure
    /\ SignatureDefaults
    /\ NotStarted
    /\ current_tour = tour
    /\ current_length = calculate_tour_length(tour, distance_matrix)
    /\ best_move_info = None
    /\ scan = <<>>
    /\ pc = "tour"

\* neighbors = generate_2opt_neighbors(current_tour)
GenerateNeighbors ==
    /\ pc = "tour"
    /\ scan' = generate_2opt_neighbors(current_tour)
    /\ current_tour' = input_after_generate(current_tour)
    /\ pc' = "neighbors"
    /\ UNCHANGED <<arguments, search_state, tabu_tenure_value, tenure,
                   current_length, best_move_info>>

\* one of the generated moves is applied and the new tour is measured
ApplyMove ==
    /\ pc = "neighbors"
    /\ \E k \in 1..Len(scan) :
          /\ best_move_info' = scan[k].move_info
          /\ current_tour' = apply_2opt_move(current_tour, scan[k].move_info[2],
                                             scan[k].move_info[3])
    /\ current_length' = calculate_tour_length(current_tour', distance_matrix)
    /\ pc' = "moved"
    /\ UNCHANGED <<arguments, search_state, tabu_tenure_value, tenure, scan>>

\* the same move is applied to the tour it produced
ApplyMoveAgain ==
    /\ pc = "moved"
    /\ current_tour' = apply_2opt_move(current_tour, best_move_info[2],
                                       best_move_info[3])
    /\ current_length' = calculate_tour_length(current_tour', distance_matrix)
    /\ pc' = "restored"
    /\ UNCHANGED <<arguments, search_state, tabu_tenure_value, tenure, scan,
                   best_move_info>>

MoveNext == GenerateNeighbors \/ ApplyMove \/ ApplyMoveAgain

MoveSpec == MoveInit /\ [][MoveNext]_vars

---------------------------------------------------------------------------
(* process_tabu_tenure called on its own, as line 253 calls it *)

\* the tabu_tenure values tried: strategy names in several spellings, other
\* strings, integers around the clamp, and None (which int() rejects)
TenureArguments ==
    { [type |-> "str", value |-> "sqrt"], [type |-> "str", value |-> "SQRT"],
      [type |-> "str", value |-> "Sqrt"], [type |-> "str", value |-> "log"],
      [type |-> "str", value |-> "LOG"], [type |-> "str", value |-> "auto"],
      [type |-> "str", value |-> "5"], [type |-> "str", value |-> ""],
      [type |-> "int", value |-> -3], [type |-> "int", value |-> 0],
      [type |-> "int", value |-> 1], [type |-> "int", value |-> 7],
      [type |-> "other", value |-> "None"] }

\* the numbers of cities tried
TenureCities == (1..MaxTenureCities) \cup {20, 100}

TenureInit ==
    /\ \E n \in TenureCities :
          /\ tour = [k \in 0..(n - 1) |-> k]
          /\ distance_matrix = SymmetricMatrix(n, 1)
    /\ tabu_tenure \in TenureArguments
    /\ tabu_tenure_value = None
    /\ tenure = None
    /\ SignatureDefaults
    /\ NotStarted
    /\ current_tour = tour
    /\ current_length = 0
    /\ best_move_info = None
    /\ scan = <<>>
    /\ pc = "configured"

\* lines 250-256: the tenure is resolved and handed to the TabuList
ResolveTenure ==
    /\ pc = "configured"
    /\ tabu_tenure_value' = process_tabu_tenure(tabu_tenure, len(tour))
    /\ tenure' = tabu_tenure_value'
    /\ pc' = "resolved"
    /\ UNCHANGED <<arguments, search_state, current_tour, current_length,
                   best_move_info, scan>>

TenureNext == ResolveTenure

TenureSpec == TenureInit /\ [][TenureNext]_vars

---------------------------------------------------------------------------
(* Properties of the search loop *)

InitialLength == calculate_tour_length(tour, distance_matrix)

IsPermutation(t, n) ==
    /\ DOMAIN t = 0..(n - 1)
    /\ {t[k] : k \in DOMAIN t} = 0..(n - 1)

NonIncreasing(s) == \A k \in 1..(Len(s) - 1) : s[k + 1] <= s[k]

\* C1: the best_length returned by tabu_search_optimization is never greater
\* than the length of the initial tour.
C1_BestNotAboveInitial ==
    pc = "done" => best_length <= InitialLength

\* a run that returned after wandering to a tour longer than the initial one
C1_Witness ==
    /\ pc = "done"
    /\ iteration >= 2
    /\ current_length > InitialLength
    /\ best_length <= InitialLength

\* C2: best_length never increases from one iteration to the next, neither in
\* the search state nor in the values handed to the progress callback and
\* recorded by the tracker.
C2_BestLengthNonIncreasing ==
    [][/\ best_length' <= best_length
       /\ NonIncreasing(tracker'.best_tour_lengths)
       /\ NonIncreasing([k \in 1..Len(notifications') |->
                            notifications'[k].best_length])
       /\ progress_callback = <<"track_progress">> =>
             tracker'.best_tour_lengths =
                [k \in 1..Len(notifications') |-> notifications'[k].best_length]]_vars

\* the tracker holds three values, best_length fell during the run and the
\* current tour has moved above it
C2_Witness ==
    /\ Len(tracker.best_tour_lengths) >= 3
    /\ \E k \in 1..(Len(tracker.best_tour_lengths) - 1) :
          tracker.best_tour_lengths[k + 1] < tracker.best_tour_lengths[k]
    /\ tracker.tour_lengths[Len(tracker.tour_lengths)] > best_length

\* C3: starting from a permutation of [0, n), current_tour, best_tour and
\* every generated neighbour are permutations of [0, n).
C3_ToursArePermutations ==
    IsPermutation(tour, len(tour)) =>
        /\ IsPermutation(current_tour, len(tour))
        /\ IsPermutation(best_tour, len(tour))
        /\ \A k \in 1..Len(scan) : IsPermutation(scan[k].neighbor, len(tour))
        /\ LET nbrs == generate_2opt_neighbors(current_tour)
           IN  \A k \in 1..Len(nbrs) : IsPermutation(nbrs[k].neighbor, len(tour))

\* several moves were committed on a five-city tour: the current tour, the
\* best tour and the initial tour are three different permutations
C3_Witness ==
    /\ len(tour) = 5
    /\ iteration >= 3
    /\ current_tour /= tour
    /\ best_tour /= tour
    /\ best_tour /= current_tour
    /\ Len(scan) = 6

\* the entry of the last scan whose move was committed
Committed(S, move) == CHOOSE k \in 1..Len(S) : S[k].move_info = move

\* C4: a neighbour is admissible iff its move is not tabu at this iteration, or
\* aspiration is enabled and it is shorter than best_length.  With aspiration
\* enabled, when the only neighbour shorter than best_length is tabu it is
\* committed and best_length decreases; with aspiration disabled no move that
\* is_tabu reports tabu is committed.
C4_Aspiration ==
    [][iteration' = iteration + 1 =>
        LET S == scan'
            Adm(k) == \/ ~S[k].is_tabu
                      \/ (aspiration_enabled /\ S[k].neighbor_length < best_length)
            Improving == {k \in 1..Len(S) : S[k].neighbor_length < best_length}
        IN  /\ \A k \in 1..Len(S) : S[k].admissible <=> Adm(k)
            /\ (best_move_info' /= None) <=> (\E k \in 1..Len(S) : Adm(k))
            /\ best_move_info' /= None =>
                  /\ \E k \in 1..Len(S) : S[k].move_info = best_move_info'
                  /\ Adm(Committed(S, best_move_info'))
                  /\ current_tour' = S[Committed(S, best_move_info')].neighbor
            /\ \A k \in 1..Len(S) :
                  (aspiration_enabled /\ Improving = {k} /\ S[k].is_tabu) =>
                      /\ best_move_info' = S[k].move_info
                      /\ current_tour' = S[k].neighbor
                      /\ best_tour' = S[k].neighbor
                      /\ best_length' = S[k].neighbor_length
                      /\ best_length' < best_length
            /\ (~aspiration_enabled /\ best_move_info' /= None) =>
                  ~S[Committed(S, best_move_info')].is_tabu]_vars

\* the iteration just executed committed a tabu move by aspiration: it was the
\* only neighbour shorter than the best length of the iteration before
C4_Witness ==
    /\ aspiration_enabled
    /\ best_move_info /= None
    /\ scan[Committed(scan, best_move_info)].is_tabu
    /\ no_improvement_count = 0
    /\ best_length = current_length
    /\ Len(notifications) >= 2
    /\ notifications[Len(notifications) - 1].iteration = iteration - 1
    /\ {k \in 1..Len(scan) :
           scan[k].neighbor_length < notifications[Len(notifications) - 1].best_length}
         = {Committed(scan, best_move_info)}

\* generation order: the general (i, j) loop in lexicographic order, then the
\* moves (i, n-1) by increasing i
GeneratedBefore(m1, m2, n) ==
    \/ m1[3] < n - 1 /\ m2[3] < n - 1
       /\ (m1[2] < m2[2] \/ (m1[2] = m2[2] /\ m1[3] < m2[3]))
    \/ m1[3] < n - 1 /\ m2[3] = n - 1
    \/ m1[3] = n - 1 /\ m2[3] = n - 1 /\ m1[2] < m2[2]

\* C5: the committed neighbour is the shortest admissible neighbour of
\* current_tour, and among several shortest ones the first generated; the
\* step is a function of the search state.
C5_FirstShortestAdmissible ==
    [][iteration' = iteration + 1 =>
        LET S == scan'
            A == {k \in 1..Len(S) : S[k].admissible}
        IN  /\ \A k \in 1..Len(S) :
                  /\ S[k].neighbor =
                        apply_2opt_move(current_tour, S[k].move_info[2],
                                        S[k].move_info[3])
                  /\ S[k].neighbor_length =
                        calculate_tour_length(S[k].neighbor, distance_matrix)
            /\ \A k, m \in 1..Len(S) :
                  k < m => GeneratedBefore(S[k].move_info, S[m].move_info,
                                           len(current_tour))
            /\ A /= {} =>
                  \E k \in A :
                      /\ \A m \in A : S[k].neighbor_length <= S[m].neighbor_length
                      /\ \A m \in A : m < k =>
                            S[m].neighbor_length > S[k].neighbor_length
                      /\ current_tour' = S[k].neighbor
                      /\ current_length' = S[k].neighbor_length
                      /\ best_move_info' = S[k].move_info]_vars

\* a tie was resolved: two admissible neighbours share the minimum, one from
\* the general loop and one wrap-around move, and the earlier one is committed
C5_Witness ==
    /\ best_move_info /= None
    /\ \E m \in 1..Len(scan) :
          /\ m > Committed(scan, best_move_info)
          /\ scan[m].admissible
          /\ scan[m].neighbor_length = current_length
          /\ scan[m].move_info[3] = len(tour) - 1
    /\ best_move_info[3] < len(tour) - 1
    /\ \E m \in 1..Len(scan) : scan[m].neighbor_length > current_length

\* add_move calls whose move no other add_move call matches
AddedOnce ==
    {a \in 1..Len(added) :
        \A b \in 1..Len(added) : b /= a => ~moves_match(added[a].move, added[b].move)}

\* C6: after add_move(move, t) with tenure T (and no other add of that move),
\* is_tabu(move, t') is true for t <= t' < t + T and false for t' >= t + T.
\* Stated of the calls the loop makes: every is_tabu result of the last scan,
\* made at t' = iteration, agrees with the window of the move's add_move call.
C6_TabuWindow ==
    \A a \in AddedOnce :
        \A k \in 1..Len(scan) :
            (moves_match(scan[k].move_info, added[a].move)
             /\ added[a].iteration < iteration) =>
                (scan[k].is_tabu <=>
                    iteration < added[a].iteration + added[a].tenure)

\* is_tabu applied to the deque twice in a row at the same iteration, for a
\* move and for its mirror image
SymmetricAt(tl, kind, i, j, t) ==
    LET first == is_tabu(tl, <<kind, i, j>>, t)
        second == is_tabu(first.tabu_list, <<kind, j, i>>, t)
    IN  first.result = second.result

LastExpiration(tl) ==
    IF tl = <<>> THEN 0
    ELSE CHOOSE x \in {tl[k][2] : k \in 1..Len(tl)} :
            \A k \in 1..Len(tl) : tl[k][2] <= x

\* C7: for every state of the TabuList, all positions i, j and every iteration
\* t, is_tabu((kind, i, j), t) = is_tabu((kind, j, i), t).
C7_SymmetricMoves ==
    \A kind \in {"2opt", "swap"} :
        \A i, j \in 0..(len(tour) - 1) :
            \A t \in 0..(LastExpiration(tabu_list) + 1) :
                SymmetricAt(tabu_list, kind, i, j, t)

\* the deque holds a move (i, j) whose mirror image (j, i) is reported tabu at
\* the next iteration
C7_Witness ==
    /\ Len(tabu_list) >= 2
    /\ \E k \in 1..Len(tabu_list) :
          LET m == tabu_list[k][1]
          IN  /\ m[2] /= m[3]
              /\ is_tabu(tabu_list, <<"2opt", m[3], m[2]>>, iteration + 1).result
              /\ is_tabu(tabu_list, m, iteration + 1).result

\* C8 as claimed: no iteration body starts once iteration >= max_iterations,
\* or elapsed >= time_limit, or no_improvement_count >= max_no_improvement.
C8_NoBodyOnceAnyHolds ==
    [][iteration' = iteration + 1 =>
        ~(\/ iteration >= max_iterations
          \/ elapsed >= time_limit
          \/ no_improvement_count >= max_no_improvement[1])]_vars

\* C8, amended: a body starts only when iteration < max_iterations and
\* elapsed < time_limit at the while test; the no-improvement condition is
\* evaluated at the end of each body and no further body starts once it holds
\* there.  max_no_improvement is 2 x the resolved tenure when unset, the
\* iteration count never exceeds max_iterations, and a run that ends before
\* max_iterations and before the time limit ends with
\* no_improvement_count >= max_no_improvement.
C8_TerminationPolicy ==
    /\ [][/\ iteration' = iteration + 1 =>
                /\ iteration < max_iterations
                /\ elapsed < time_limit
                /\ (iteration = 0 \/ no_improvement_count < max_no_improvement[1])
                /\ (no_improvement_count' >= max_no_improvement[1] => pc' = "done")
          /\ (pc = "loop" /\ pc' = "done" /\ iteration' = iteration) =>
                (iteration >= max_iterations \/ elapsed >= time_limit)]_vars
    /\ [](/\ iteration <= max_iterations
          /\ max_no_improvement /= None
          /\ (max_no_improvement_arg = None =>
                 max_no_improvement[1] = 2 * tabu_tenure_value)
          /\ tabu_tenure_value >= 1
          /\ (pc = "done" /\ iteration < max_iterations /\ elapsed < time_limit) =>
                 no_improvement_count >= max_no_improvement[1])

\* a run with max_no_improvement unset that stopped on the no-improvement
\* condition, before max_iterations and before the time limit
C8_Witness ==
    /\ pc = "done"
    /\ max_no_improvement_arg = None
    /\ iteration >= 2
    /\ iteration < max_iterations
    /\ elapsed < time_limit
    /\ no_improvement_count >= max_no_improvement[1]

\* C9: for every max_iterations the loop eventually terminates and returns,
\* having executed at most max_iterations iterations (a property of FairSpec).
C9_Terminates ==
    <>(pc = "done" /\ iteration <= max_iterations)

\* a run that returned after an iteration in which no neighbour was admissible
C9_Witness ==
    /\ pc = "done"
    /\ iteration >= 2
    /\ best_move_info = None
    /\ \A k \in 1..Len(scan) : ~scan[k].admissible
    /\ Len(scan) >= 3

\* C10: with max_iterations = 0 no iteration is executed and the run returns
\* the initial tour, its length, iteration 0 and a zero move count, without a
\* progress callback call or a tabu entry.
C10_ZeroIterations ==
    max_iterations = 0 =>
        /\ iteration = 0
        /\ best_tour = tour
        /\ best_length = InitialLength
        /\ best_move_types["2opt"] = 0
        /\ notifications = <<>>
        /\ tracker = NewTracker
        /\ tabu_list = <<>>
        /\ added = <<>>
        /\ scan = <<>>

\* a run with max_iterations = 0, a callback and time to spare has returned
C10_Witness ==
    /\ max_iterations = 0
    /\ pc = "done"
    /\ progress_callback /= None
    /\ elapsed < time_limit
    /\ best_tour = tour
    /\ iteration = 0

---------------------------------------------------------------------------
(* Properties of the tour utilities (MoveSpec) *)

\* the positions a 2-opt move may name on a tour of n cities
MovePositions(n) ==
    {ij \in (0..(n - 1)) \X (0..(n - 1)) : ij[1] + 1 < ij[2]}

\* C11: for every tour of length n and all positions i, j with 0 <= i,
\* i + 1 < j and j < n, apply_2opt_move(apply_2opt_move(tour, i, j), i, j)
\* is the tour again (a property of MoveSpec).
C11_SelfInverse ==
    /\ \A ij \in MovePositions(len(current_tour)) :
          apply_2opt_move(apply_2opt_move(current_tour, ij[1], ij[2]),
                          ij[1], ij[2]) = current_tour
    /\ pc = "restored" => current_tour = tour

\* a move reversing three interior cities of a five-city tour was applied
\* twice: the first application changed the tour, the second restored it
C11_Witness ==
    /\ pc = "restored"
    /\ len(tour) = 5
    /\ best_move_info = <<"2opt", 0, 3>>
    /\ apply_2opt_move(tour, 0, 3) /= tour
    /\ current_tour = tour
    /\ tour /= [k \in 0..4 |-> k]

\* the tour started r positions later, and the tour walked backwards
Rotate(t, r) == [k \in DOMAIN t |-> t[(k + r) % len(t)]]

Reverse(t) == [k \in DOMAIN t |-> t[len(t) - 1 - k]]

IsSymmetric(D) == \A a, b \in DOMAIN D : D[a][b] = D[b][a]

\* the distances of the pairs (t[k], t[(k+1) mod n]) for the positions below m
RECURSIVE CyclicPairs(_, _, _)
CyclicPairs(t, D, m) ==
    IF m = 0 THEN 0
    ELSE CyclicPairs(t, D, m - 1) + D[t[m - 1]][t[m % len(t)]]

\* the same sum as the floats add it up, pair after pair
RECURSIVE RoundedCyclicPairs(_, _, _)
RoundedCyclicPairs(t, D, m) ==
    IF m = 0 THEN 0
    ELSE fl_add(RoundedCyclicPairs(t, D, m - 1), D[t[m - 1]][t[m % len(t)]])

\* x is a float sum of n terms whose exact sum is y: each addition is off by
\* at most half the spacing of the floats
WithinRounding(x, y, n) ==
    /\ 2 * (x - y) <= n * Ulp(y)
    /\ 2 * (y - x) <= n * Ulp(y)

\* C12 as stated: for every valid tour and symmetric distance matrix,
\* calculate_tour_length returns the same value for the tour, for each of its
\* rotations and for its reversal; the value is the sum over the n
\* consecutive pairs, the closing edge from the last city to the first
\* included (a property of MoveSpec).
C12_RotationReversal ==
    IsSymmetric(distance_matrix) =>
        LET n == len(current_tour)
            L == calculate_tour_length(current_tour, distance_matrix)
        IN  /\ current_length = L
            /\ L = CyclicPairs(current_tour, distance_matrix, n)
            /\ \A r \in 0..(n - 1) :
                  /\ calculate_tour_length(Rotate(current_tour, r),
                                           distance_matrix) = L
                  /\ calculate_tour_length(Reverse(Rotate(current_tour, r)),
                                           distance_matrix) = L

\* C12 amended: for every valid tour and symmetric distance matrix,
\* calculate_tour_length returns the float sum over the n consecutive pairs
\* in list order, the closing edge from the last city to the first added
\* last.  The exact sum of these pairs is the same for the tour, each of its
\* rotations and its reversal; the float sums of these lists are each within
\* n half-spacings of that exact sum, and they are all equal to it when it
\* is small enough for no addition to be rounded (a property of MoveSpec).
C12_RotationReversalRounded ==
    IsSymmetric(distance_matrix) =>
        LET n == len(current_tour)
            L == calculate_tour_length(current_tour, distance_matrix)
            exact == CyclicPairs(current_tour, distance_matrix, n)
        IN  /\ current_length = L
            /\ L = RoundedCyclicPairs(current_tour, distance_matrix, n)
            /\ \A r \in 0..(n - 1) :
                  LET rotated == Rotate(current_tour, r)
                      reversed == Reverse(rotated)
                      R == calculate_tour_length(rotated, distance_matrix)
                      V == calculate_tour_length(reversed, distance_matrix)
                  IN  /\ CyclicPairs(rotated, distance_matrix, n) = exact
                      /\ CyclicPairs(reversed, distance_matrix, n) = exact
                      /\ WithinRounding(R, exact, n)
                      /\ WithinRounding(V, exact, n)
                      /\ exact < 2 ^ MantissaBits => (R = exact /\ V = exact)

\* a five-city tour whose length a move has changed, with distances large
\* enough for the additions to be rounded: its rotation by two and its
\* reversal are other lists with the same exact sum, the float sum of one of
\* them differs from the float sum of the tour, and the closing edge
\* contributes to the sum
C12_Witness ==
    /\ pc = "moved"
    /\ len(tour) = 5
    /\ distance_matrix = DistantMatrix(5)
    /\ current_length /= calculate_tour_length(tour, distance_matrix)
    /\ Rotate(current_tour, 2) /= current_tour
    /\ Reverse(current_tour) /= current_tour
    /\ \/ calculate_tour_length(Rotate(current_tour, 2), distance_matrix)
             /= current_length
       \/ calculate_tour_length(Reverse(current_tour), distance_matrix)
             /= current_length
    /\ current_length /= CyclicPairs(current_tour, distance_matrix, 5)
    /\ distance_matrix[current_tour[4]][current_tour[0]] > 0

---------------------------------------------------------------------------
(* Properties of the tenure resolution (TenureSpec) *)

\* round(3 ln n) computed in floating point for the sizes tried
Round3Ln(n) ==
    IF n <= 12 THEN <<0, 2, 3, 4, 5, 5, 6, 6, 7, 7, 7, 7>>[n]
    ELSE IF n = 20 THEN 9
    ELSE IF n = 100 THEN 14
    ELSE -1

\* r = round(sqrt(n)): (r - 1/2)^2 < n < (r + 1/2)^2
IsRoundSqrt(r, n) == r * r - r < n /\ n <= r * r + r

AtLeastOne(x) == IF x < 1 THEN 1 ELSE x

\* the resolved tenure is what the claim says, the strategy names being the
\* strings of the set names
ResolvesAsClaimed(names) ==
    pc = "resolved" =>
        LET n == len(tour)
            v == tabu_tenure_value
            a == tabu_tenure
        IN  /\ v \in Nat
            /\ v >= 1
            /\ (a.type = "str" /\ a.value \in names.sqrt) =>
                  /\ IsRoundSqrt(v, n)
                  /\ (n = 100 => v = 10)
                  /\ (n = 20 => v = 4)
            /\ (a.type = "str" /\ a.value \in names.log) =>
                  v = AtLeastOne(Round3Ln(n))
            /\ a.type = "int" => v = AtLeastOne(a.value)
            /\ (a.type = "str" /\ a.value \notin (names.sqrt \cup names.log)) =>
                  v = 10
            /\ a.type = "other" => v = 10

\* C13 as claimed: 'sqrt' resolves to round(sqrt(n)) (n = 100 gives 10, n = 20
\* gives 4), 'log' to round(3 ln n), a literal integer to itself, any other
\* string and any non-convertible value to 10, and the result is an integer
\* >= 1 (a property of TenureSpec).
C13_TenureResolution ==
    ResolvesAsClaimed([sqrt |-> {"sqrt"}, log |-> {"log"}])

\* C13, amended: the strategy names are compared without regard to case, so
\* 'SQRT' and 'LOG' resolve as 'sqrt' and 'log' do; every string that is
\* neither resolves to 10 (a property of TenureSpec).
C13_TenureResolutionAnyCase ==
    ResolvesAsClaimed([sqrt |-> {"sqrt", "SQRT", "Sqrt"}, log |-> {"log", "LOG"}])

\* 'log' on a single city rounds to 0 and is clamped to 1
C13_Witness ==
    /\ pc = "resolved"
    /\ tabu_tenure = [type |-> "str", value |-> "log"]
    /\ len(tour) = 1
    /\ tabu_tenure_value = 1

---------------------------------------------------------------------------
(* Properties of calls with an invalid tour (InvalidSpec) *)

\* C14: when the initial tour is not a permutation of [0, n) or n < 3, the
\* engine fails with an InvalidTour error before the search loop: no
\* iteration is executed, no tabu_list entry is created, no progress
\* notification is emitted and the call does not return a result
\* (a property of InvalidSpec).
C14_InvalidTourRejected ==
    (~IsPermutation(tour, len(tour)) \/ len(tour) < 3) =>
        /\ iteration = 0
        /\ scan = <<>>
        /\ tabu_list = <<>>
        /\ added = <<>>
        /\ notifications = <<>>
        /\ pc /= "done"

---------------------------------------------------------------------------
(* Properties of the progress callback (Spec) *)

\* the search state and the result of a loop body
SearchState(body) ==
    <<body.iteration, body.current_tour, body.current_length, body.best_tour,
      body.best_length, body.best_move_types, body.no_improvement_count,
      body.tabu_list, body.tenure, body.best_move_info, body.pc>>

\* C15: the result does not depend on the progress callback: from every
\* reachable state the iteration leaves the same search state (tours,
\* lengths, counters, tabu list, tenure, and whether the run goes on)
\* whichever callback is supplied, none included, and whatever it returns, so
\* runs on the same inputs pass through the same search states and return
\* the same (best_tour, best_length, iteration, best_move_types).
C15_CallbackIndependence ==
    [][iteration' = iteration + 1 =>
        \A cb \in Callbacks :
            SearchState(LoopBody(cb)) =
                <<iteration', current_tour', current_length', best_tour',
                  best_length', best_move_types', no_improvement_count',
                  tabu_list', tenure', best_move_info', pc'>>]_vars

\* the callback returning True was called in three iterations, the last call
\* in the iteration just executed, and the search goes on
C15_Witness ==
    /\ progress_callback = <<"returns_true">>
    /\ Len(notifications) >= 3
    /\ notifications[Len(notifications)].iteration = iteration
    /\ pc = "loop"
    /\ iteration < max_iterations
    /\ tracker = NewTracker

\* C16: when a progress callback is supplied, every executed iteration emits
\* exactly one notification carrying (iteration, current_tour,
\* current_length, best_tour, best_length, move), after the commit or stall
\* step and before termination is evaluated, in iterations that commit a move
\* and in iterations in which no admissible neighbour was found.
C16_OneNotificationPerIteration ==
    progress_callback /= None =>
        /\ Len(notifications) = iteration
        /\ \A k \in 1..Len(notifications) : notifications[k].iteration = k
        /\ iteration >= 1 =>
              notifications[Len(notifications)] =
                  [iteration |-> iteration,
                   current_tour |-> current_tour,
                   current_length |-> current_length,
                   best_tour |-> best_tour,
                   best_length |-> best_length,
                   move |-> best_move_info]

---------------------------------------------------------------------------
(* Properties of the tabu window (Spec) *)

\* every move committed at an iteration t with tenure T, with iteration in
\* t+1 .. t+T-1+extra, was found tabu by the scan of this iteration and,
\* without aspiration, was not selected
TabuInFollowing(extra) ==
    \A a \in 1..Len(added) :
        (/\ added[a].iteration < iteration
         /\ iteration < added[a].iteration + added[a].tenure + extra) =>
            /\ \E k \in 1..Len(scan) :
                  moves_match(scan[k].move_info, added[a].move)
            /\ \A k \in 1..Len(scan) :
                  moves_match(scan[k].move_info, added[a].move) =>
                      /\ scan[k].is_tabu
                      /\ ~aspiration_enabled =>
                            /\ ~scan[k].admissible
                            /\ best_move_info /= scan[k].move_info

\* C17 as claimed: a move committed at iteration t with tenure T is reported
\* tabu, and absent aspiration excluded from selection, in each of the T
\* following iterations t+1 .. t+T.
C17_TabuForTenureIterations == TabuInFollowing(1)

\* C17, amended: a move committed at iteration t with tenure T is reported
\* tabu, and absent aspiration excluded from selection, in each of the
\* iterations t+1 .. t+T-1: the window of T iterations starts at the
\* committing iteration t itself, and the entry expires at t+T.
C17_TabuUntilExpiration == TabuInFollowing(0)

\* the last iteration of a window of three: the move committed two
\* iterations ago with tenure 3 is still tabu and, being shorter than the
\* neighbour selected, would have been selected otherwise
C17_Witness ==
    \E a \in 1..Len(added) :
        /\ added[a].tenure = 3
        /\ iteration = added[a].iteration + 2
        /\ ~aspiration_enabled
        /\ best_move_info /= None
        /\ \E k \in 1..Len(scan) :
              /\ moves_match(scan[k].move_info, added[a].move)
              /\ scan[k].is_tabu
              /\ ~scan[k].admissible
              /\ scan[k].neighbor_length < current_length

\* the deque as the scan of the last iteration left it, before the add_move
\* of the committed move
AfterScan ==
    IF best_move_info /= None /\ iteration >= 1
    THEN SubSeq(tabu_list, 1, Len(tabu_list) - 1)
    ELSE tabu_list

\* C18: expired entries are inert in every reachable state, runs with
\* dynamic_tabu included: the is_tabu calls made at iteration t leave no entry
\* with expiration <= t in the deque, and report a move tabu only if an entry
\* matching it has expiration > t.
C18_ExpiredEntriesInert ==
    iteration >= 1 =>
        /\ \A e \in 1..Len(AfterScan) : AfterScan[e][2] > iteration
        /\ \A k \in 1..Len(scan) :
              scan[k].is_tabu =>
                  \E e \in 1..Len(AfterScan) :
                      /\ moves_match(scan[k].move_info, AfterScan[e][1])
                      /\ AfterScan[e][2] > iteration

---------------------------------------------------------------------------
(* Properties of the neighbourhood (MoveSpec); scan holds the list that    *)
(* generate_2opt_neighbors returned for tour                               *)

\* the positions of the list that carry the move (i, j)
Carrying(i, j) == {k \in 1..Len(scan) : scan[k].move_info = <<"2opt", i, j>>}

\* C19: for a tour of n >= 3 cities generate_2opt_neighbors returns exactly
\* one (neighbor, move) pair for each (i, j) with 0 <= i, i + 1 < j, j < n and
\* no other pair, (n-1)(n-2)/2 pairs in all, and the neighbor of the pair with
\* move ('2opt', i, j) is apply_2opt_move(tour, i, j) (a property of MoveSpec).
C19_Neighbourhood ==
    (pc /= "tour" /\ len(tour) >= 3) =>
        LET n == len(tour)
        IN  /\ \A ij \in MovePositions(n) : Cardinality(Carrying(ij[1], ij[2])) = 1
            /\ \A k \in 1..Len(scan) :
                  /\ scan[k].move_info[1] = "2opt"
                  /\ Len(scan[k].move_info) = 3
                  /\ <<scan[k].move_info[2], scan[k].move_info[3]>>
                        \in MovePositions(n)
                  /\ DOMAIN scan[k] = {"neighbor", "move_info"}
                  /\ scan[k].neighbor =
                        apply_2opt_move(tour, scan[k].move_info[2],
                                        scan[k].move_info[3])
            /\ 2 * Len(scan) = (n - 1) * (n - 2)

\* the six neighbours of a five-city tour that is not the identity list
C19_Witness ==
    /\ pc = "neighbors"
    /\ len(tour) = 5
    /\ Len(scan) = 6
    /\ tour[0] = 3
    /\ Carrying(2, 4) /= {}
    /\ Carrying(0, 2) /= {}

\* the moves (i, n-1) for i in 0..last are in the list once each, behind
\* every move of the general loop, which produces none with j = n-1
WrapMoves(last) ==
    pc /= "tour" =>
        LET n == len(tour)
            general == GeneralLoop(tour, 0)
        IN  /\ \A i \in 0..last : Cardinality(Carrying(i, n - 1)) = 1
            /\ \A k \in 1..Len(general) :
                  /\ scan[k] = general[k]
                  /\ general[k].move_info[3] < n - 1
            /\ \A k \in (Len(general) + 1)..Len(scan) :
                  /\ scan[k].move_info[3] = n - 1
                  /\ scan[k].move_info[2] \in 0..last

\* C20 as claimed: the neighbourhood contains the wrap-around moves, those
\* with j = n-1, for i ranging over 0..n-2, each exactly once, and none of
\* them is also produced by the general loop (a property of MoveSpec).
C20_WrapAroundToNMinus2 == WrapMoves(len(tour) - 2)

\* C20, amended: the wrap-around moves are those with j = n-1 for i ranging
\* over 0..n-3, each exactly once, and none of them is also produced by the
\* general loop (a property of MoveSpec).
C20_WrapAroundToNMinus3 == WrapMoves(len(tour) - 3)

\* a five-city neighbourhood: three wrap-around moves follow the three moves
\* of the general loop
C20_Witness ==
    /\ pc = "neighbors"
    /\ len(tour) = 5
    /\ Len(GeneralLoop(tour, 0)) = 3
    /\ Carrying(0, 4) = {4}
    /\ Carrying(1, 4) = {5}
    /\ Carrying(2, 4) = {6}
    /\ Carrying(3, 4) = {}

---------------------------------------------------------------------------
(* Properties of the edges of the neighbours (MoveSpec) *)

\* the edges of the closed cycle, without direction
Edges(t) == {{t[k], t[(k + 1) % len(t)]} : k \in DOMAIN t}

RemovedEdges(t, i, j) ==
    {{t[i], t[i + 1]}, {t[j], t[(j + 1) % len(t)]}}

AddedEdges(t, i, j) ==
    {{t[i], t[j]}, {t[i + 1], t[(j + 1) % len(t)]}}

\* every generated neighbour is the tour with the two edges of its move
\* replaced, and the neighbours of the moves in the set twoEdge differ from
\* the tour in exactly two edges
EdgeExchange(twoEdge) ==
    pc /= "tour" =>
        \A k \in 1..Len(scan) :
            LET i == scan[k].move_info[2]
                j == scan[k].move_info[3]
                nb == scan[k].neighbor
            IN  /\ RemovedEdges(tour, i, j) \subseteq Edges(tour)
                /\ Edges(nb) = (Edges(tour) \ RemovedEdges(tour, i, j))
                                  \cup AddedEdges(tour, i, j)
                /\ <<i, j>> \in twoEdge =>
                      /\ Cardinality(Edges(tour) \ Edges(nb)) = 2
                      /\ Cardinality(Edges(nb) \ Edges(tour)) = 2
                      /\ Edges(tour) \ Edges(nb) = RemovedEdges(tour, i, j)
                      /\ Edges(nb) \ Edges(tour) = AddedEdges(tour, i, j)

\* C21 as claimed: every neighbour produced by generate_2opt_neighbors
\* differs from the tour, as an undirected closed cycle, in exactly two
\* edges: (tour[i], tour[i+1]) and (tour[j], tour[(j+1) mod n]) are removed
\* and (tour[i], tour[j]) and (tour[i+1], tour[(j+1) mod n]) are added, for
\* every generated move, the wrap-around moves included (a property of
\* MoveSpec).
C21_TwoEdgesEveryMove == EdgeExchange(MovePositions(len(tour)))

\* C21, amended: the same for every generated move but (0, n-1), whose two
\* removed edges are the two added edges: that neighbour is the same cycle
\* (a property of MoveSpec).
C21_TwoEdgesButFullReversal ==
    /\ EdgeExchange(MovePositions(len(tour)) \ {<<0, len(tour) - 1>>})
    /\ pc /= "tour" =>
          \A k \in 1..Len(scan) :
              scan[k].move_info = <<"2opt", 0, len(tour) - 1>> =>
                  Edges(scan[k].neighbor) = Edges(tour)

\* a five-city neighbourhood: the wrap-around move (1, 4) exchanges two
\* edges and the move (0, 4) none
C21_Witness ==
    /\ pc = "neighbors"
    /\ len(tour) = 5
    /\ tour[0] = 2
    /\ Cardinality(Edges(scan[5].neighbor) \ Edges(tour)) = 2
    /\ scan[5].move_info = <<"2opt", 1, 4>>
    /\ scan[4].move_info = <<"2opt", 0, 4>>
    /\ Edges(scan[4].neighbor) = Edges(tour)
    /\ scan[4].neighbor /= tour

---------------------------------------------------------------------------
(* Properties of the steps of the loop (Spec) *)

AfterScanOf(tl, it, S) == IF S = <<>> THEN tl ELSE clean_expired(tl, it)

\* C23: in an iteration where no neighbour is admissible (every move tabu and
\* none passing aspiration, or an empty neighbourhood) the iteration commits
\* nothing, no_improvement_count increases by exactly 1, and current_tour,
\* current_length, best_tour, best_length and the move counts are unchanged;
\* no tabu entry is added, the deque being what the is_tabu calls of the scan
\* left (a property of AnyListSpec).
C23_StallStep ==
    [][(iteration' = iteration + 1
        /\ \A k \in 1..Len(scan') : ~scan'[k].admissible) =>
            /\ best_move_info' = None
            /\ no_improvement_count' = no_improvement_count + 1
            /\ current_tour' = current_tour
            /\ current_length' = current_length
            /\ best_tour' = best_tour
            /\ best_length' = best_length
            /\ best_move_types' = best_move_types
            /\ added' = added
            /\ tabu_list' = AfterScanOf(tabu_list, iteration', scan')
            /\ \A e \in 1..Len(tabu_list') :
                  \E f \in 1..Len(tabu_list) : tabu_list'[e] = tabu_list[f]]_vars

\* two stalls in a row on a four-city tour, every neighbour tabu, after a
\* move away from the initial tour; the count stands at two or more
C23_Witness ==
    /\ len(tour) = 4
    /\ iteration >= 3
    /\ best_move_info = None
    /\ Len(scan) = 3
    /\ \A k \in 1..Len(scan) : scan[k].is_tabu /\ ~scan[k].admissible
    /\ no_improvement_count >= 2
    /\ Len(added) < iteration - 1
    /\ current_tour /= tour

\* C24: when an admissible neighbour is found at iteration t it becomes
\* current_tour / current_length and exactly one tabu entry, its move with
\* expiration t + the tenure in force at that moment, is appended; if
\* current_length < best_length then best_tour / best_length become it and
\* no_improvement_count is 0, otherwise the best is unchanged and
\* no_improvement_count increases by 1.  A stored entry keeps the expiration
\* it was given, whatever the tenure becomes later.
C24_CommitStep ==
    /\ [][(iteration' = iteration + 1
           /\ \E k \in 1..Len(scan') : scan'[k].admissible) =>
               /\ best_move_info' /= None
               /\ \E k \in 1..Len(scan') :
                     /\ scan'[k].admissible
                     /\ scan'[k].move_info = best_move_info'
                     /\ current_tour' = scan'[k].neighbor
                     /\ current_length' = scan'[k].neighbor_length
               /\ tabu_list' =
                     Append(AfterScanOf(tabu_list, iteration', scan'),
                            <<best_move_info', iteration' + tenure>>)
               /\ added' = Append(added, [move |-> best_move_info',
                                          iteration |-> iteration',
                                          tenure |-> tenure])
               /\ IF current_length' < best_length
                  THEN /\ best_tour' = current_tour'
                       /\ best_length' = current_length'
                       /\ no_improvement_count' = 0
                  ELSE /\ best_tour' = best_tour
                       /\ best_length' = best_length
                       /\ no_improvement_count' = no_improvement_count + 1]_vars
    /\ [](\A e \in 1..Len(tabu_list) :
             \E a \in 1..Len(added) :
                 tabu_list[e] = <<added[a].move,
                                  added[a].iteration + added[a].tenure>>)

\* the iteration just executed committed a move that is no new best, under a
\* tenure the adaptation had set, and the adaptation has changed the tenure
\* again since
C24_Witness ==
    /\ Len(added) >= 2
    /\ added[Len(added)].iteration = iteration
    /\ added[Len(added)].tenure /= tabu_tenure_value
    /\ tenure /= added[Len(added)].tenure
    /\ tabu_list[Len(tabu_list)] =
          <<best_move_info, iteration + added[Len(added)].tenure>>
    /\ no_improvement_count >= 1
    /\ current_length > best_length

---------------------------------------------------------------------------
(* Properties of the tenure adaptation (Spec) *)

Min(x, y) == IF x <= y THEN x ELSE y

Max(x, y) == IF x >= y THEN x ELSE y

\* the tenure of the band: diversification, else intensification, else base
BandTenure(diversify, intensify) ==
    IF diversify THEN Min(2 * tabu_tenure_value, tabu_tenure_value + 10)
    ELSE IF intensify THEN Max(3, tabu_tenure_value \div 2)
    ELSE tabu_tenure_value

\* C25 as claimed: with dynamic_tabu and the run not terminated, after each
\* iteration the tenure is min(2*base, base+10) when no_improvement_count is
\* above diversification_threshold, otherwise the intensification value when
\* it is above intensification_threshold, otherwise the base tenure; without
\* dynamic_tabu the tenure is the base tenure in every state.
C25_BandsAboveThreshold ==
    /\ [][(iteration' = iteration + 1 /\ pc' = "loop" /\ dynamic_tabu) =>
            tenure' =
                BandTenure(no_improvement_count' > diversification_threshold,
                           no_improvement_count' > intensification_threshold)]_vars
    /\ [](~dynamic_tabu => tenure = tabu_tenure_value)

\* C25, amended: the same with each band starting at its threshold:
\* no_improvement_count >= diversification_threshold, otherwise
\* no_improvement_count >= intensification_threshold.
C25_BandsFromThreshold ==
    /\ [][(iteration' = iteration + 1 /\ pc' = "loop" /\ dynamic_tabu) =>
            tenure' =
                BandTenure(no_improvement_count' >= diversification_threshold,
                           no_improvement_count' >= intensification_threshold)]_vars
    /\ [](~dynamic_tabu => tenure = tabu_tenure_value)

\* the count has just reached the diversification threshold of a run with
\* base tenure 6, and the tenure is 12
C25_Witness ==
    /\ dynamic_tabu
    /\ pc = "loop"
    /\ iteration >= 2
    /\ tabu_tenure_value = 6
    /\ no_improvement_count = diversification_threshold
    /\ tenure = 12

\* C26: in the intensification band the adaptation decreases the tenure: for
\* every resolved base tenure >= 1, the tenure set while no_improvement_count
\* is in the intensification band (at or past intensification_threshold, short
\* of diversification_threshold) is at least 3 and not greater than the base
\* tenure.
C26_IntensificationDecreases ==
    [][(/\ iteration' = iteration + 1
        /\ pc' = "loop"
        /\ dynamic_tabu
        /\ tabu_tenure_value >= 1
        /\ no_improvement_count' >= intensification_threshold
        /\ no_improvement_count' < diversification_threshold) =>
            /\ tenure' >= 3
            /\ tenure' <= tabu_tenure_value]_vars

---------------------------------------------------------------------------
(* Properties of the lengths and counts kept by the loop (Spec) *)

\* C27: in every reachable state and on return, current_length is the length
\* of current_tour and best_length the length of best_tour under
\* distance_matrix, each the float sum of the n edges of the cycle in list
\* order; the returned best_length is the length of the returned best_tour.
C27_LengthBookkeeping ==
    /\ current_length = calculate_tour_length(current_tour, distance_matrix)
    /\ current_length
          = RoundedCyclicPairs(current_tour, distance_matrix, len(tour))
    /\ best_length = calculate_tour_length(best_tour, distance_matrix)
    /\ best_length = RoundedCyclicPairs(best_tour, distance_matrix, len(tour))

\* a five-city run returned with a best tour found on the way, shorter than
\* both the initial tour and the tour the run ended on
C27_Witness ==
    /\ pc = "done"
    /\ len(tour) = 5
    /\ best_tour /= tour
    /\ best_tour /= current_tour
    /\ best_length < current_length
    /\ best_length < InitialLength
    /\ best_move_types["2opt"] >= 2

\* C28: with dynamic_tabu = false (tenure T fixed), in every reachable state
\* the expirations of the deque increase strictly from head to tail, pruning
\* from the head removes every expired entry at any iteration, no entry with
\* expiration <= t was present while the neighbours of iteration t were
\* evaluated, and the deque never holds more than T entries.
C28_FixedTenureDeque ==
    ~dynamic_tabu =>
        /\ tenure = tabu_tenure_value
        /\ \A e \in 1..(Len(tabu_list) - 1) : tabu_list[e][2] < tabu_list[e + 1][2]
        /\ \A t \in 0..(LastExpiration(tabu_list) + 1) :
              LET cleaned == clean_expired(tabu_list, t)
              IN  /\ \A e \in 1..Len(cleaned) : cleaned[e][2] > t
                  /\ Len(cleaned) =
                        Cardinality({e \in 1..Len(tabu_list) : tabu_list[e][2] > t})
        /\ iteration >= 1 =>
              \A e \in 1..Len(AfterScan) : AfterScan[e][2] > iteration
        /\ Len(tabu_list) <= tenure

\* a run with fixed tenure 2 whose deque is full after entries have been
\* pruned from its head
C28_Witness ==
    /\ ~dynamic_tabu
    /\ tenure = 2
    /\ Len(tabu_list) = 2
    /\ iteration >= 4
    /\ Len(added) >= 4
    /\ tabu_list[1][2] = iteration + 1

\* C29 as stated: for a symmetric distance matrix and n >= 3, the generated
\* move (0, n-1) yields the current tour traversed in the opposite direction,
\* the same cycle with the same length; in an iteration where that move is
\* not reported tabu an admissible neighbour exists and the committed
\* current_length is <= the previous current_length, so current_length
\* increases only in iterations where (0, n-1) is tabu.
C29_FullReversalBoundsLength ==
    [][(iteration' = iteration + 1 /\ len(tour) >= 3
        /\ IsSymmetric(distance_matrix)) =>
            \E k \in 1..Len(scan') :
                /\ scan'[k].move_info = <<"2opt", 0, len(tour) - 1>>
                /\ scan'[k].neighbor =
                      Rotate(Reverse(current_tour), len(tour) - 1)
                /\ Edges(scan'[k].neighbor) = Edges(current_tour)
                /\ scan'[k].neighbor_length = current_length
                /\ ~scan'[k].is_tabu =>
                      /\ scan'[k].admissible
                      /\ best_move_info' /= None
                      /\ current_length' <= current_length
                /\ current_length' > current_length => scan'[k].is_tabu]_vars

\* C29 amended: for a symmetric distance matrix and n >= 3, the generated
\* move (0, n-1) yields the current tour traversed in the opposite direction,
\* the same cycle with the same exact sum of distances; its float length and
\* current_length are each within n half-spacings of that sum, and are equal
\* when no addition is rounded.  In an iteration where that move is not
\* reported tabu an admissible neighbour exists and the committed
\* current_length is <= the float length of the reversed tour, so it exceeds
\* the previous current_length by at most n spacings, and by nothing when no
\* addition is rounded; current_length exceeds the length of the reversed
\* tour only in iterations where (0, n-1) is tabu.
C29_FullReversalBoundsRoundedLength ==
    [][(iteration' = iteration + 1 /\ len(tour) >= 3
        /\ IsSymmetric(distance_matrix)) =>
            \E k \in 1..Len(scan') :
                LET n == len(tour)
                    exact == CyclicPairs(current_tour, distance_matrix, n)
                    reversed_length == scan'[k].neighbor_length
                IN  /\ scan'[k].move_info = <<"2opt", 0, n - 1>>
                    /\ scan'[k].neighbor = Rotate(Reverse(current_tour), n - 1)
                    /\ Edges(scan'[k].neighbor) = Edges(current_tour)
                    /\ CyclicPairs(scan'[k].neighbor, distance_matrix, n) = exact
                    /\ WithinRounding(reversed_length, exact, n)
                    /\ WithinRounding(current_length, exact, n)
                    /\ exact < 2 ^ MantissaBits =>
                          /\ reversed_length = current_length
                          /\ current_length' > current_length =>
                                scan'[k].is_tabu
                    /\ ~scan'[k].is_tabu =>
                          /\ scan'[k].admissible
                          /\ best_move_info' /= None
                          /\ current_length' <= reversed_length
                          /\ current_length' - current_length <= n * Ulp(exact)
                    /\ current_length' > reversed_length => scan'[k].is_tabu]_vars

\* the first iteration on three far cities: the move (0, 2) is not tabu and
\* is committed, and the float length of the reversed tour it yields is
\* greater than the length of the tour it reverses
C29_Witness ==
    /\ iteration = 1
    /\ distance_matrix = F3
    /\ best_move_info = <<"2opt", 0, 2>>
    /\ current_tour = Rotate(Reverse(tour), 2)
    /\ current_length > calculate_tour_length(tour, distance_matrix)
    /\ CyclicPairs(current_tour, distance_matrix, 3)
          = CyclicPairs(tour, distance_matrix, 3)
    /\ \E k \in 1..Len(scan) :
          /\ scan[k].move_info = <<"2opt", 0, 2>>
          /\ ~scan[k].is_tabu
          /\ scan[k].admissible

\* the number of calls of the callback that report a best_length below the
\* one reported before (below the initial length, for the first call)
RECURSIVE Decreases(_, _)
Decreases(calls, m) ==
    IF m = 0 THEN 0
    ELSE Decreases(calls, m - 1)
         + (IF calls[m].best_length
                  < (IF m = 1 THEN InitialLength ELSE calls[m - 1].best_length)
            THEN 1 ELSE 0)

\* C30: move_type_counts['2opt'] is the number of iterations in which
\* best_length strictly decreased, not the number of moves committed: it
\* goes up by one in a step exactly when best_length goes down, and the
\* calls of a callback show as many decreases.  It is 0 iff best_tour is the
\* initial tour, and it never exceeds the iteration count; so for the values
\* returned.
C30_CountsNewBests ==
    /\ [][best_move_types'["2opt"]
            = best_move_types["2opt"]
              + (IF best_length' < best_length THEN 1 ELSE 0)]_vars
    /\ [](/\ DOMAIN best_move_types = {"2opt"}
          /\ best_move_types["2opt"] = 0 <=> best_tour = tour
          /\ best_move_types["2opt"] <= iteration
          /\ best_move_types["2opt"] <= Len(added)
          /\ progress_callback /= None =>
                best_move_types["2opt"]
                   = Decreases(notifications, Len(notifications)))

\* a search has returned after two new bests, with more moves committed and
\* more iterations run than new bests found
C30_Witness ==
    /\ pc = "done"
    /\ best_move_types["2opt"] = 2
    /\ Len(added) > 2
    /\ iteration > 2
    /\ best_tour /= tour
    /\ best_length < InitialLength
    /\ progress_callback /= None
    /\ Decreases(notifications, Len(notifications)) = 2

============================================================================
